---- MODULE Spec2Model ----
(***************************************************************************)
(* A model of http-errors-es (src/src/index.ts): the load-time population  *)
(* of the constructor exports, the variadic factory createError and the    *)
(* predicate createError.isHttpError, together with a caller that creates  *)
(* plain errors, changes fields of the errors it holds and calls the two   *)
(* functions.                                                              *)
(*                                                                         *)
(* JavaScript strings whose characters the code inspects (reason phrases,  *)
(* identifiers, class names, String(status), property keys of the exports  *)
(* object) are sequences of one-character strings.  Property names of      *)
(* error values and of plain objects are TLA+ strings.                     *)
(*                                                                         *)
(* A JavaScript value is a record [t, v]: t is the kind of value and v its *)
(* payload.  An error value is a reference (an index) into the heap.       *)
(* Stack traces (Error.captureStackTrace) are not modelled.                *)
(***************************************************************************)
EXTENDS Integers, Sequences, FiniteSets, TLC

(***************************************************************************)
(* Bounds of the model.                                                    *)
(***************************************************************************)
MaxArgs == 3     \* longest argument list the caller passes to createError
MaxObjs == 2     \* most error values alive on the heap
MaxSets == 1     \* most field assignments the caller makes to its errors

(***************************************************************************)
(* JavaScript values.                                                      *)
(***************************************************************************)
Undefined == [t |-> "undefined", v |-> 0]
Null      == [t |-> "null", v |-> 0]
NaN       == [t |-> "nan", v |-> 0]
Num(n)    == [t |-> "number", v |-> n]
Str(s)    == [t |-> "string", v |-> s]
Bool(b)   == [t |-> "boolean", v |-> b]
Obj(f)    == [t |-> "object", v |-> f]
Ref(i)    == [t |-> "error", v |-> i]

\* typeof
TypeOf(x) ==
  CASE x.t = "nan"   -> "number"
    [] x.t = "null"  -> "object"
    [] x.t = "error" -> "object"
    [] OTHER         -> x.t

\* x === y
StrictEq(x, y) == x.t # "nan" /\ y.t # "nan" /\ x.t = y.t /\ x.v = y.v

\* x == null, the test that ?? and != null make
Nullish(x) == x.t \in {"undefined", "null"}

\* x < n and x >= n for a value x of type number
Lt(x, n) == x.t = "number" /\ x.v < n
Ge(x, n) == x.t = "number" /\ x.v >= n

(***************************************************************************)
(* Strings as character sequences.                                         *)
(***************************************************************************)
Digits == <<"0", "1", "2", "3", "4", "5", "6", "7", "8", "9">>
Lower  == <<"a", "b", "c", "d", "e", "f", "g", "h", "i", "j", "k", "l", "m",
            "n", "o", "p", "q", "r", "s", "t", "u", "v", "w", "x", "y", "z">>
Upper  == <<"A", "B", "C", "D", "E", "F", "G", "H", "I", "J", "K", "L", "M",
            "N", "O", "P", "Q", "R", "S", "T", "U", "V", "W", "X", "Y", "Z">>

Range(s) == {s[i] : i \in DOMAIN s}

\* String.prototype.toUpperCase on one character
toUpperCase(c) ==
  IF \E i \in DOMAIN Lower : Lower[i] = c
    THEN Upper[CHOOSE i \in DOMAIN Lower : Lower[i] = c]
    ELSE c

RECURSIVE NatToString(_)
NatToString(n) ==
  IF n < 10 THEN <<Digits[n + 1]>>
  ELSE NatToString(n \div 10) \o <<Digits[(n % 10) + 1]>>

\* String(x) for a value x of type number
String(x) ==
  IF x.t = "nan" THEN <<"N", "a", "N">>
  ELSE IF x.v < 0 THEN <<"-">> \o NatToString(0 - x.v)
  ELSE NatToString(x.v)

\* Number(s) for the strings codeClass builds: a first character and "00"
Number(s) ==
  IF \A i \in DOMAIN s : s[i] \in Range(Digits)
    THEN Num(((CHOOSE d \in DOMAIN Digits : Digits[d] = s[1]) - 1) * 100)
  ELSE IF s = <<"-", "0", "0">> THEN Num(0)
  ELSE NaN

(***************************************************************************)
(* The status registry (package statuses-es): the known codes in the order *)
(* the package lists them, and the reason phrase of each.                  *)
(***************************************************************************)
codes == <<200, 400, 404, 418, 500>>

phrase ==
  [c \in Range(codes) |->
    CASE c = 200 -> <<"O", "K">>
      [] c = 400 -> <<"B", "a", "d", " ", "R", "e", "q", "u", "e", "s", "t">>
      [] c = 404 -> <<"N", "o", "t", " ", "F", "o", "u", "n", "d">>
      [] c = 418 -> <<"I", "'", "m", " ", "a", " ",
                      "T", "e", "a", "p", "o", "t">>
      [] c = 500 -> <<"I", "n", "t", "e", "r", "n", "a", "l", " ",
                      "S", "e", "r", "v", "e", "r", " ",
                      "E", "r", "r", "o", "r">>]

\* statuses.message, keyed as a JavaScript object is: by String(code)
message == [k \in {NatToString(c) : c \in Range(codes)} |->
             phrase[CHOOSE c \in Range(codes) : NatToString(c) = k]]

\* statuses.message[key], undefined for a key the table does not have
messageOf(key) == IF key \in DOMAIN message THEN Str(message[key]) ELSE Undefined

(***************************************************************************)
(* toIdentifier (package toidentifier): split on spaces, upper-case the    *)
(* first character of every token, join, drop every character that is not *)
(* a letter, a digit, an underscore or a space.                            *)
(***************************************************************************)
RECURSIVE capitalizeJoin(_, _)
capitalizeJoin(s, first) ==
  IF s = <<>> THEN <<>>
  ELSE IF Head(s) = " " THEN capitalizeJoin(Tail(s), TRUE)
  ELSE <<IF first THEN toUpperCase(Head(s)) ELSE Head(s)>>
         \o capitalizeJoin(Tail(s), FALSE)

identChar(c) == c \in Range(Lower) \cup Range(Upper) \cup Range(Digits) \cup {"_", " "}

toIdentifier(s) == SelectSeq(capitalizeJoin(s, TRUE), identChar)

(***************************************************************************)
(* src/src/index.ts                                                        *)
(***************************************************************************)
\* String.prototype.slice(-n)
sliceLast(s, n) == IF Len(s) <= n THEN s ELSE SubSeq(s, Len(s) - n + 1, Len(s))

toClassName(name) ==
  IF sliceLast(name, 5) # <<"E", "r", "r", "o", "r">>
    THEN name \o <<"E", "r", "r", "o", "r">>
    ELSE name

codeClass(status) == Number(<<Head(String(status))>> \o <<"0", "0">>)


(***************************************************************************)
(* Constructors.  A constructor is a JavaScript function value whose       *)
(* payload records its identity (id), the name nameFunc gave it, the       *)
(* properties set on its prototype, and the prototypes above its own in    *)
(* the chain that inherits() built.                                        *)
(***************************************************************************)
ErrorChars == <<"E", "r", "r", "o", "r">>

\* the host's Error
NativeError ==
  [t |-> "function",
   v |-> [id        |-> <<"native", 0>>,
          name      |-> ErrorChars,
          prototype |-> [k \in {"message", "name"} |->
                          IF k = "message" THEN Str(<<>>) ELSE Str(ErrorChars)],
          chain     |-> <<>>]]

\* inherits(ctor, superCtor): the prototypes above ctor.prototype
inherits(superCtor) ==
  <<[id |-> superCtor.v.id, prototype |-> superCtor.v.prototype]>>
    \o superCtor.v.chain

NoProps == [k \in {} |-> Undefined]

createHttpErrorConstructor ==
  [t |-> "function",
   v |-> [id        |-> <<"abstract", 0>>,
          name      |-> <<"H", "t", "t", "p">> \o ErrorChars,
          prototype |-> NoProps,
          chain     |-> inherits(NativeError)]]

createClientErrorConstructor(HttpError, name, code) ==
  [t |-> "function",
   v |-> [id        |-> <<"client", code>>,
          name      |-> toClassName(name),
          prototype |-> [k \in {"status", "statusCode", "expose"} |->
                          IF k = "expose" THEN Bool(TRUE) ELSE Num(code)],
          chain     |-> inherits(HttpError)]]

\* createServerErrorConstructor with the expose of a client error
createServerErrorConstructorExposed(HttpError, name, code) ==
  [t |-> "function",
   v |-> [id        |-> <<"server", code>>,
          name      |-> toClassName(name),
          prototype |-> [k \in {"status", "statusCode", "expose"} |->
                          IF k = "expose" THEN Bool(TRUE) ELSE Num(code)],
          chain     |-> inherits(HttpError)]]

createServerErrorConstructor(HttpError, name, code) ==
  [t |-> "function",
   v |-> [id        |-> <<"server", code>>,
          name      |-> toClassName(name),
          prototype |-> [k \in {"status", "statusCode", "expose"} |->
                          IF k = "expose" THEN Bool(FALSE) ELSE Num(code)],
          chain     |-> inherits(HttpError)]]

(***************************************************************************)
(* Error values on the heap: the constructor whose prototype the value has *)
(* and the value's own properties.                                         *)
(***************************************************************************)
\* obj[key] = val
SetProp(own, key, val) == [k \in DOMAIN own \cup {key} |-> IF k = key THEN val ELSE own[k]]

RECURSIVE lookup(_, _)
lookup(protos, key) ==
  IF protos = <<>> THEN Undefined
  ELSE IF key \in DOMAIN Head(protos).prototype THEN Head(protos).prototype[key]
  ELSE lookup(Tail(protos), key)

\* obj[key], through the prototype chain
Get(obj, key) ==
  IF key \in DOMAIN obj.own THEN obj.own[key]
  ELSE lookup(<<[id |-> obj.proto.v.id, prototype |-> obj.proto.v.prototype]>>
                \o obj.proto.v.chain, key)

\* obj instanceof ctor, for a callable ctor
InstanceOf(obj, ctor) ==
  \/ obj.proto.v.id = ctor.v.id
  \/ \E i \in DOMAIN obj.proto.v.chain : obj.proto.v.chain[i].id = ctor.v.id

\* new Error(msg): the message is an own property unless msg is undefined
NewNativeError(msg) ==
  [proto |-> NativeError,
   own   |-> IF msg.t = "undefined" THEN NoProps ELSE SetProp(NoProps, "message", msg)]

\* ClientError without the default message
ClientErrorNoDefault(ctor, msg) ==
  [proto |-> ctor,
   own   |-> SetProp(SetProp(NoProps, "message", msg), "name", Str(ctor.v.name))]

\* ClientError(message), of the client constructor ctor
ClientError(ctor, msg) ==
  [proto |-> ctor,
   own   |-> SetProp(SetProp(NoProps, "message",
                             IF ~Nullish(msg) THEN msg
                             ELSE messageOf(NatToString(ctor.v.id[2]))),
                     "name", Str(ctor.v.name))]


\* ServerError(message), of the server constructor ctor
ServerError(ctor, msg) ==
  [proto |-> ctor,
   own   |-> SetProp(SetProp(NoProps, "message",
                             IF ~Nullish(msg) THEN msg
                             ELSE messageOf(NatToString(ctor.v.id[2]))),
                     "name", Str(ctor.v.name))]

\* new ctor(msg) for a constructor the exports hold under a numeric key
New(ctor, msg) ==
  IF ctor.v.id[1] = "client" THEN ClientError(ctor, msg) ELSE ServerError(ctor, msg)

(***************************************************************************)
(* The exports: the properties of the function createError, keyed by       *)
(* property name.                                                          *)
(***************************************************************************)
\* exports[key], undefined for a property that was never set
Prop(exports, key) == IF key \in DOMAIN exports THEN exports[key] ELSE Undefined

\* forEachCode exporting the constructor under its class name
forEachCodeClassName(exports, code, HttpError) ==
  LET name == toIdentifier(messageOf(NatToString(code)).v)
      class == codeClass(Num(code))
      CodeError ==
        IF StrictEq(class, Num(400))
          THEN createClientErrorConstructor(HttpError, name, code)
        ELSE IF StrictEq(class, Num(500))
          THEN createServerErrorConstructor(HttpError, name, code)
        ELSE Undefined
  IN IF ~Nullish(CodeError)
       THEN SetProp(SetProp(exports, NatToString(code), CodeError),
                    toClassName(name), CodeError)
       ELSE exports

\* the body of forEachCode
forEachCode(exports, code, HttpError) ==
  LET name == toIdentifier(messageOf(NatToString(code)).v)
      class == codeClass(Num(code))
      CodeError ==
        IF StrictEq(class, Num(400))
          THEN createClientErrorConstructor(HttpError, name, code)
        ELSE IF StrictEq(class, Num(500))
          THEN createServerErrorConstructor(HttpError, name, code)
        ELSE Undefined
  IN IF ~Nullish(CodeError)
       THEN SetProp(SetProp(exports, NatToString(code), CodeError), name, CodeError)
       ELSE exports

RECURSIVE populateConstructorExports(_, _, _)
populateConstructorExports(exports, codeList, HttpError) ==
  IF codeList = <<>> THEN exports
  ELSE populateConstructorExports(forEachCode(exports, Head(codeList), HttpError),
                                  Tail(codeList), HttpError)

KeyHttpError   == <<"H", "t", "t", "p">> \o ErrorChars
KeyIsHttpError == <<"i", "s", "H", "t", "t", "p">> \o ErrorChars

\* createIsHttpErrorFunction(HttpError): the closure, holding its argument
createIsHttpErrorFunction(HttpError) ==
  [t |-> "function",
   v |-> [id |-> <<"isHttpError", 0>>, name |-> KeyIsHttpError, HttpError |-> HttpError]]

TypeError(text) == [t |-> "TypeError", v |-> text]

\* isHttpError(val), of the closure fn, on the heap given: the value returned or
\* the error thrown.  instanceof throws a TypeError when its right-hand side
\* is not callable.
isHttpError(fn, heap, val) ==
  IF val.t \in {"null", "undefined"} \/ TypeOf(val) # "object"
    THEN [outcome |-> "return", value |-> Bool(FALSE)]
  ELSE IF fn.v.HttpError.t # "function"
    THEN [outcome |-> "throw", value |-> TypeError("instanceof: not callable")]
  ELSE IF val.t = "error" /\ InstanceOf(heap[val.v], fn.v.HttpError)
    THEN [outcome |-> "return", value |-> Bool(TRUE)]
  ELSE [outcome |-> "return",
        value |-> Bool(/\ val.t = "error"
                       /\ TypeOf(Get(heap[val.v], "expose")) = "boolean"
                       /\ TypeOf(Get(heap[val.v], "statusCode")) = "number"
                       /\ StrictEq(Get(heap[val.v], "status"),
                                   Get(heap[val.v], "statusCode")))]

(***************************************************************************)
(* createError                                                             *)
(***************************************************************************)
\* argStep keeping the first error value given
argStepFirstError(heap, acc, arg, i) ==
  LET type == TypeOf(arg) IN
  IF type = "object" /\ arg.t = "error"
    THEN LET s1 == Get(heap[arg.v], "status")
             s2 == Get(heap[arg.v], "statusCode")
         IN [acc EXCEPT !.err = IF Nullish(acc.err) THEN arg ELSE acc.err,
                        !.status = IF ~Nullish(s1) THEN s1
                                   ELSE IF ~Nullish(s2) THEN s2
                                   ELSE acc.status]
  ELSE IF type = "number" /\ i = 0 THEN [acc EXCEPT !.status = arg]
  ELSE IF type = "string" THEN [acc EXCEPT !.msg = arg]
  ELSE IF type = "object" THEN [acc EXCEPT !.props = arg]
  ELSE [acc EXCEPT !.thrown = TypeError(<<"argument #", i + 1, " unsupported type ", type>>)]

\* argStep merging the entries of every object given
argStepMerge(heap, acc, arg, i) ==
  LET type == TypeOf(arg) IN
  IF type = "object" /\ arg.t = "error"
    THEN LET s1 == Get(heap[arg.v], "status")
             s2 == Get(heap[arg.v], "statusCode")
         IN [acc EXCEPT !.err = arg,
                        !.status = IF ~Nullish(s1) THEN s1
                                   ELSE IF ~Nullish(s2) THEN s2
                                   ELSE acc.status]
  ELSE IF type = "number" /\ i = 0 THEN [acc EXCEPT !.status = arg]
  ELSE IF type = "string" THEN [acc EXCEPT !.msg = arg]
  ELSE IF type = "object"
    THEN [acc EXCEPT !.props =
           IF arg.t = "object"
             THEN Obj([k \in DOMAIN acc.props.v \cup DOMAIN arg.v |->
                        IF k \in DOMAIN arg.v THEN arg.v[k] ELSE acc.props.v[k]])
             ELSE acc.props]
  ELSE [acc EXCEPT !.thrown = TypeError(<<"argument #", i + 1, " unsupported type ", type>>)]

\* one pass of the loop over args, on args[i + 1] (i counts from 0 as in the code)
argStep(heap, acc, arg, i) ==
  LET type == TypeOf(arg) IN
  IF type = "object" /\ arg.t = "error"
    THEN LET s1 == Get(heap[arg.v], "status")
             s2 == Get(heap[arg.v], "statusCode")
         IN [acc EXCEPT !.err = arg,
                        !.status = IF ~Nullish(s1) THEN s1
                                   ELSE IF ~Nullish(s2) THEN s2
                                   ELSE acc.status]
  ELSE IF type = "number" /\ i = 0 THEN [acc EXCEPT !.status = arg]
  ELSE IF type = "string" THEN [acc EXCEPT !.msg = arg]
  ELSE IF type = "object" THEN [acc EXCEPT !.props = arg]
  ELSE [acc EXCEPT !.thrown = TypeError(<<"argument #", i + 1, " unsupported type ", type>>)]

RECURSIVE argLoop(_, _, _, _)
argLoop(heap, args, i, acc) ==
  IF i >= Len(args) \/ acc.thrown.t # "undefined" THEN acc
  ELSE argLoop(heap, args, i + 1, argStep(heap, acc, args[i + 1], i))

\* the calls of deprecate() that lines 262-264 make (what depd does with a
\* call, once per call site, is left to depd)
deprecations(status) ==
  IF TypeOf(status) = "number" /\ (Lt(status, 400) \/ Ge(status, 600)) THEN 1 ELSE 0

\* lines 266-269
validStatus(status) ==
  IF TypeOf(status) # "number"
       \/ (String(status) \notin DOMAIN message /\ (Lt(status, 400) \/ Ge(status, 600)))
    THEN Num(500)
    ELSE status

\* line 273
selectConstructor(exports, status) ==
  IF Prop(exports, String(status)).t = "function"
    THEN Prop(exports, String(status))
    ELSE Prop(exports, String(codeClass(status)))

\* lines 284-288, on the error value obj
normalize(obj, HttpError, status) ==
  IF HttpError.t # "function"
       \/ ~InstanceOf(obj, HttpError)
       \/ ~StrictEq(Get(obj, "status"), status)
    THEN [obj EXCEPT !.own =
           SetProp(SetProp(SetProp(obj.own, "expose", Bool(Lt(status, 500))),
                           "statusCode", status),
                   "status", status)]
    ELSE obj

\* the keys that for (const key in props) visits
PropKeys(props) == IF props.t = "object" THEN DOMAIN props.v ELSE {}

\* copyProps without the protection of status and statusCode
copyPropsUnprotected(obj, props) ==
  [obj EXCEPT !.own =
    [k \in DOMAIN obj.own \cup PropKeys(props) |->
      IF k \in PropKeys(props) THEN props.v[k] ELSE obj.own[k]]]

\* lines 290-295
copyProps(obj, props) ==
  [obj EXCEPT !.own =
    [k \in DOMAIN obj.own \cup (PropKeys(props) \ {"status", "statusCode"}) |->
      IF k \in PropKeys(props) \ {"status", "statusCode"} THEN props.v[k] ELSE obj.own[k]]]

\* createError(...args) on the heap given: the outcome, the heap it leaves, the
\* value returned or the error thrown, and the number of deprecate() calls made
createError(exports, heap, args) ==
  LET acc == argLoop(heap, args, 0,
                     [err |-> Undefined, msg |-> Undefined, status |-> Num(500),
                      props |-> Obj(NoProps), thrown |-> Undefined])
      status == validStatus(acc.status)
      HttpError == selectConstructor(exports, status)
      created == IF HttpError.t = "function"
                   THEN New(HttpError, acc.msg)
                   ELSE NewNativeError(IF ~Nullish(acc.msg) THEN acc.msg
                                       ELSE messageOf(String(status)))
      ref == IF Nullish(acc.err) THEN Len(heap) + 1 ELSE acc.err.v
      obj == IF Nullish(acc.err) THEN created ELSE heap[ref]
      final == copyProps(normalize(obj, HttpError, status), acc.props)
  IN IF acc.thrown.t # "undefined"
       THEN [outcome |-> "throw", heap |-> heap, value |-> acc.thrown, deprecated |-> 0]
       ELSE [outcome |-> "return",
             heap |-> IF Nullish(acc.err) THEN Append(heap, final)
                      ELSE [heap EXCEPT ![ref] = final],
             value |-> Ref(ref),
             deprecated |-> deprecations(acc.status)]


(***************************************************************************)
(* The program and its caller.                                             *)
(*   pc            "unloaded" before the module is evaluated, "idle"       *)
(*                 between calls, "returned" when a call has just ended    *)
(*   exports       the properties of createError                           *)
(*   moduleExports the CommonJS module.exports object of the module        *)
(*   heap          the error values alive                                  *)
(*   caller        the calling program: the values it passes as arguments  *)
(*                 besides the errors it holds, the values it assigns to   *)
(*                 the fields of its errors, and the number of errors it   *)
(*                 keeps alive                                             *)
(*   nsets         the field assignments the caller has made               *)
(*   last          the call that has just ended: its arguments, the heap   *)
(*                 it started from and what it returned or threw           *)
(***************************************************************************)
VARIABLES pc, exports, moduleExports, heap, caller, nsets, last

vars == <<pc, exports, moduleExports, heap, caller, nsets, last>>

NoCall ==
  [op |-> "none", args |-> <<>>, pre |-> <<>>, outcome |-> "none",
   value |-> Undefined, deprecated |-> 0]

Plain1 == Obj([status |-> Num(999), statusCode |-> Num(999), a |-> Num(1)])
Plain2 == Obj([a |-> Num(2), b |-> Num(2)])
Shaped == Obj([status |-> Num(400), statusCode |-> Num(400), expose |-> Bool(TRUE)])
Custom == Str(<<"m">>)
Oops   == Str(<<"o", "o", "p", "s">>)

Statuses == {Num(200), Num(404), Num(499), Num(500), Num(999), NaN}

\* a caller that keeps errors, assigns a status to their fields and passes
\* them again, with no other argument
Keeper == [values |-> {}, fields |-> {Num(404)}, holds |-> MaxObjs]

Callers ==
  { \* a caller that passes status codes and messages, and keeps one error
    [values |-> Statuses \cup {Custom}, fields |-> {}, holds |-> 1],
    \* a caller that passes every code of the registry, and keeps one error
    [values |-> {Num(c) : c \in Range(codes)}, fields |-> {}, holds |-> 1],
    \* a caller that passes messages, property objects and unsupported values,
    \* and keeps one error
    [values |-> {Num(404), Custom, Plain1, Plain2, Null, Undefined, Bool(TRUE)},
     fields |-> {}, holds |-> 1],
    Keeper,
    \* a caller that assigns a string to the fields of the one error it keeps
    [values |-> {Num(404)}, fields |-> {Str(<<"x">>)}, holds |-> 1] }

ArgValues == caller.values \cup {Ref(i) : i \in DOMAIN heap}

ArgLists == UNION {[1..n -> ArgValues] : n \in 0..MaxArgs}

Init ==
  /\ pc = "unloaded"
  /\ exports = [k \in {} |-> Undefined]
  /\ moduleExports = [k \in {} |-> Undefined]
  /\ heap = <<>>
  /\ caller \in Callers
  /\ nsets = 0
  /\ last = NoCall

\* the module's evaluation, lines 305-311
Load ==
  /\ pc = "unloaded"
  /\ LET e1 == SetProp(exports, KeyHttpError, createHttpErrorConstructor)
         e2 == SetProp(e1, KeyIsHttpError,
                       createIsHttpErrorFunction(Prop(moduleExports, "HttpError")))
     IN exports' = populateConstructorExports(e2, codes, Prop(e1, KeyHttpError))
  /\ moduleExports' = SetProp(moduleExports, "default", Str(<<"createError">>))
  /\ pc' = "idle"
  /\ UNCHANGED <<heap, caller, nsets, last>>

\* the caller: e = new Error('oops')
NewError ==
  /\ pc = "idle"
  /\ Len(heap) < caller.holds
  /\ heap' = Append(heap, NewNativeError(Oops))
  /\ UNCHANGED <<pc, exports, moduleExports, caller, nsets, last>>

\* the caller: e.status = val or e.statusCode = val, on an error it holds
SetField ==
  /\ pc = "idle"
  /\ nsets < MaxSets
  /\ \E i \in DOMAIN heap, key \in {"status", "statusCode"}, val \in caller.fields :
       heap' = [heap EXCEPT ![i].own = SetProp(heap[i].own, key, val)]
  /\ nsets' = nsets + 1
  /\ UNCHANGED <<pc, exports, moduleExports, caller, last>>

\* the caller: createError(...args)
CallCreateError ==
  /\ pc = "idle"
  /\ \E args \in ArgLists :
       LET r == createError(exports, heap, args) IN
         /\ Len(r.heap) <= caller.holds
         /\ heap' = r.heap
         /\ last' = [op |-> "createError", args |-> args, pre |-> heap,
                     outcome |-> r.outcome, value |-> r.value,
                     deprecated |-> r.deprecated]
  /\ pc' = "returned"
  /\ UNCHANGED <<exports, moduleExports, caller, nsets>>

\* the caller: createError.isHttpError(val)
CallIsHttpError ==
  /\ pc = "idle"
  /\ \E val \in ArgValues \cup {Shaped} :
       LET r == isHttpError(Prop(exports, KeyIsHttpError), heap, val) IN
         last' = [op |-> "isHttpError", args |-> <<val>>, pre |-> heap,
                  outcome |-> r.outcome, value |-> r.value, deprecated |-> 0]
  /\ pc' = "returned"
  /\ UNCHANGED <<exports, moduleExports, heap, caller, nsets>>

\* the caller goes on after a call
Continue ==
  /\ pc = "returned"
  /\ pc' = "idle"
  /\ last' = NoCall
  /\ UNCHANGED <<exports, moduleExports, heap, caller, nsets>>

Next ==
  \/ Load
  \/ NewError
  \/ SetField
  \/ CallCreateError
  \/ CallIsHttpError
  \/ Continue

Spec == Init /\ [][Next]_vars

\* the program with the caller Keeper
InitKeeper == Init /\ caller = Keeper

SpecKeeper == InitKeeper /\ [][Next]_vars


(***************************************************************************)
(* The call that has just ended, for the properties below.                 *)
(***************************************************************************)
CreateErrorEnded == pc = "returned" /\ last.op = "createError"
Returned == CreateErrorEnded /\ last.outcome = "return"

\* the value createError returned, as the heap now holds it
Result == heap[last.value.v]

Protected == {"status", "statusCode"}
Standard  == {"message", "name", "status", "statusCode", "expose"}

ErrorArgs  == {i \in DOMAIN last.args : last.args[i].t = "error"}
StringArgs == {i \in DOMAIN last.args : last.args[i].t = "string"}
PlainArgs  == {i \in DOMAIN last.args : last.args[i].t = "object"}
\* the arguments whose typeof is "object" and that are no error: plain objects and null
ObjectArgs == {i \in DOMAIN last.args : last.args[i].t \in {"object", "null"}}

Last(S) == CHOOSE i \in S : \A j \in S : j <= i
First(S) == CHOOSE i \in S : \A j \in S : i <= j

InRange(x) == x.t = "number" /\ x.v >= 400 /\ x.v < 600
Known(x)   == x.t = "number" /\ x.v \in Range(codes)

LeadingStatus == Len(last.args) >= 1 /\ InRange(last.args[1])

\* args[i] has a shape the contract accepts: an error value, a number in first
\* position, a string or a plain object
Supported(i) ==
  \/ last.args[i].t \in {"error", "string", "object"}
  \/ TypeOf(last.args[i]) = "number" /\ i = 1

AllSupported == \A i \in DOMAIN last.args : Supported(i)

(***************************************************************************)
(* C1: for every status code c the registry knows in [400,599],            *)
(* createError(c) returns a value whose status is c, whose statusCode is c *)
(* and whose expose is (c < 500).                                          *)
(***************************************************************************)
C1_KnownCode ==
  (CreateErrorEnded /\ Len(last.args) = 1 /\ Known(last.args[1]) /\ InRange(last.args[1]))
    => /\ last.outcome = "return"
       /\ StrictEq(Get(Result, "status"), last.args[1])
       /\ StrictEq(Get(Result, "statusCode"), last.args[1])
       /\ StrictEq(Get(Result, "expose"), Bool(last.args[1].v < 500))

\* createError(500) has returned a value that is not exposed
C1_Witness ==
  /\ Returned
  /\ last.args = <<Num(500)>>
  /\ StrictEq(Get(Result, "status"), Num(500))
  /\ StrictEq(Get(Result, "expose"), Bool(FALSE))

(***************************************************************************)
(* C2: for every value v, createError.isHttpError(v) returns a boolean     *)
(* without failing: false when v is null, undefined or not an object; true *)
(* when v is an instance of createError.HttpError; otherwise true exactly  *)
(* when v is a native error with a boolean expose, a numeric statusCode    *)
(* and status === statusCode.                                              *)
(***************************************************************************)
\* what the claim says isHttpError(val) returns
C2_Expected(val) ==
  IF val.t # "error" THEN FALSE
  ELSE IF InstanceOf(heap[val.v], Prop(exports, KeyHttpError)) THEN TRUE
  ELSE /\ TypeOf(Get(heap[val.v], "expose")) = "boolean"
       /\ TypeOf(Get(heap[val.v], "statusCode")) = "number"
       /\ StrictEq(Get(heap[val.v], "status"), Get(heap[val.v], "statusCode"))

C2_IsHttpError ==
  (pc = "returned" /\ last.op = "isHttpError")
    => (/\ last.outcome = "return"
        /\ last.value.t = "boolean"
        /\ last.value.v = C2_Expected(last.args[1]))

(***************************************************************************)
(* C3: every value createError returns has status === statusCode, for      *)
(* every accepted argument list and after any earlier calls, a call that   *)
(* adopts an error whose fields the caller has changed included.           *)
(***************************************************************************)
C3_StatusIsStatusCode ==
  Returned => StrictEq(Get(Result, "status"), Get(Result, "statusCode"))

(***************************************************************************)
(* C4 as stated: in every call with a leading number n in [400,600) and an *)
(* object argument that contains status and/or statusCode, the value       *)
(* returned has status n and statusCode n, and every other key of that     *)
(* object is copied onto it.  (Stated for the argument lists the contract   *)
(* accepts; the others are C6's.)                                          *)
(***************************************************************************)
C4_AsStated ==
  (Returned /\ LeadingStatus /\ AllSupported)
    => \A i \in PlainArgs :
         (DOMAIN last.args[i].v \cap Protected # {})
           => /\ StrictEq(Get(Result, "status"), last.args[1])
              /\ StrictEq(Get(Result, "statusCode"), last.args[1])
              /\ \A k \in DOMAIN last.args[i].v \ Protected :
                   StrictEq(Get(Result, k), last.args[i].v[k])

(***************************************************************************)
(* C4 amended: in every call with a leading number n in [400,600), no      *)
(* error value among the arguments and an object argument that contains    *)
(* status and/or statusCode, the value returned has status n and           *)
(* statusCode n, and every other key of the last argument of type object   *)
(* (a plain object, or null, which has no keys) is copied onto it.         *)
(***************************************************************************)
C4_ProtectedKeys ==
  (Returned /\ LeadingStatus /\ ErrorArgs = {}
     /\ \E i \in PlainArgs : DOMAIN last.args[i].v \cap Protected # {})
    => /\ StrictEq(Get(Result, "status"), last.args[1])
       /\ StrictEq(Get(Result, "statusCode"), last.args[1])
       /\ \A k \in PropKeys(last.args[Last(ObjectArgs)]) \ Protected :
            StrictEq(Get(Result, k), last.args[Last(ObjectArgs)].v[k])

\* createError(404, {status: 999, statusCode: 999, a: 1}) has returned
C4_Witness ==
  /\ Returned
  /\ last.args = <<Num(404), Plain1>>
  /\ StrictEq(Get(Result, "status"), Num(404))
  /\ StrictEq(Get(Result, "a"), Num(1))

(***************************************************************************)
(* C5 as stated: the entries of several plain-object arguments are merged: *)
(* the value returned carries every non-protected key of any of them, with *)
(* the value of the last object that has the key.  (Stated for the         *)
(* argument lists the contract accepts; the others are C6's.)              *)
(***************************************************************************)
C5_AsStated ==
  (Returned /\ AllSupported)
    => \A i \in PlainArgs : \A k \in DOMAIN last.args[i].v \ Protected :
         LET having == {j \in PlainArgs : k \in DOMAIN last.args[j].v}
         IN StrictEq(Get(Result, k), last.args[Last(having)].v[k])

(***************************************************************************)
(* C5 amended: of several object arguments only the last one counts: the   *)
(* value returned carries every non-protected key of the last argument of  *)
(* type object, with its value there, and no key of an earlier object      *)
(* argument: its other own properties are message, name, status,           *)
(* statusCode and expose, and what an adopted error had before the call.   *)
(***************************************************************************)
C5_LastObjectOnly ==
  Returned
    => LET copied == IF ObjectArgs = {} THEN {}
                     ELSE PropKeys(last.args[Last(ObjectArgs)]) \ Protected
       IN /\ \A k \in copied :
               StrictEq(Get(Result, k), last.args[Last(ObjectArgs)].v[k])
          /\ \A k \in DOMAIN Result.own \ (copied \cup Standard) :
               /\ ErrorArgs # {}
               /\ k \in DOMAIN last.pre[last.value.v].own
               /\ Result.own[k] = last.pre[last.value.v].own[k]

\* createError({a: 2, b: 2}, {status: 999, statusCode: 999, a: 1}) has returned
\* a value with a = 1 and no b
C5_Witness ==
  /\ Returned
  /\ last.args = <<Plain2, Plain1>>
  /\ StrictEq(Get(Result, "a"), Num(1))
  /\ "b" \notin DOMAIN Result.own

(***************************************************************************)
(* C6: createError throws a type error naming the 1-based position and the *)
(* runtime type of the first argument that is not an error value, a number *)
(* in first position, a string or a plain object, and returns no value.    *)
(***************************************************************************)
C6_UnsupportedThrows ==
  (CreateErrorEnded /\ \E i \in DOMAIN last.args : ~Supported(i))
    => LET i == First({j \in DOMAIN last.args : ~Supported(j)})
       IN /\ last.outcome = "throw"
          /\ last.value = TypeError(<<"argument #", i, " unsupported type ",
                                      TypeOf(last.args[i])>>)
          /\ heap = last.pre

(***************************************************************************)
(* C7: when the status resolved from the arguments is a number outside     *)
(* [400,600), one advisory is emitted and the result's status is that      *)
(* number if the registry knows it and 500 otherwise; when it is a number  *)
(* inside [400,600), no advisory is emitted and the status is kept; when   *)
(* it is not a number, the status is 500.                                  *)
(***************************************************************************)
\* the status the loop over the arguments resolves
Resolved ==
  argLoop(last.pre, last.args, 0,
          [err |-> Undefined, msg |-> Undefined, status |-> Num(500),
           props |-> Obj(NoProps), thrown |-> Undefined]).status

C7_StatusValidation ==
  Returned
    => IF TypeOf(Resolved) # "number"
         THEN StrictEq(Get(Result, "status"), Num(500))
       ELSE IF InRange(Resolved)
         THEN last.deprecated = 0 /\ StrictEq(Get(Result, "status"), Resolved)
       ELSE /\ last.deprecated = 1
            /\ StrictEq(Get(Result, "status"),
                        IF Known(Resolved) THEN Resolved ELSE Num(500))


(***************************************************************************)
(* C8 as stated: after load, for every code c the registry knows in        *)
(* [400,599], the exports hold one constructor under the key c and under   *)
(* the key className (the derived identifier, with "Error" appended unless *)
(* it ends with it), and its prototype's statusCode is c.                  *)
(***************************************************************************)
KnownErrorCodes == {c \in Range(codes) : c >= 400 /\ c <= 599}

C8_AsStated ==
  pc # "unloaded"
    => \A c \in KnownErrorCodes :
         LET className == toClassName(toIdentifier(phrase[c])) IN
           /\ Prop(exports, className).t = "function"
           /\ Prop(exports, className) = Prop(exports, NatToString(c))
           /\ Prop(exports, className).v.prototype["statusCode"] = Num(c)

(***************************************************************************)
(* C8 amended: after load, for every code c the registry knows in          *)
(* [400,599], the exports hold one constructor under the key c and under   *)
(* the derived identifier itself, without the suffix (NotFound, ImATeapot, *)
(* InternalServerError); its prototype's statusCode is c and its name, the *)
(* name instances carry, is the className.  A key className exists only    *)
(* for an identifier that already ends with "Error".                       *)
(***************************************************************************)
C8_RegisteredByIdentifier ==
  pc # "unloaded"
    => /\ \A c \in KnownErrorCodes :
            LET name == toIdentifier(phrase[c]) IN
              /\ Prop(exports, name).t = "function"
              /\ Prop(exports, name) = Prop(exports, NatToString(c))
              /\ Prop(exports, name).v.prototype["statusCode"] = Num(c)
              /\ Prop(exports, name).v.name = toClassName(name)
              /\ (toClassName(name) # name => toClassName(name) \notin DOMAIN exports)
       /\ Prop(exports, <<"N", "o", "t", "F", "o", "u", "n", "d">>)
            = Prop(exports, <<"4", "0", "4">>)
       /\ Prop(exports, <<"I", "m", "A", "T", "e", "a", "p", "o", "t">>)
            = Prop(exports, <<"4", "1", "8">>)
       /\ Prop(exports, <<"4", "1", "8">>).v.name
            = <<"I", "m", "A", "T", "e", "a", "p", "o", "t", "E", "r", "r", "o", "r">>
       /\ Prop(exports, <<"5", "0", "0">>).v.name
            = <<"I", "n", "t", "e", "r", "n", "a", "l", "S", "e", "r", "v", "e", "r",
                "E", "r", "r", "o", "r">>

\* the module is loaded: NotFound is a key of the exports, NotFoundError is not
C8_Witness ==
  /\ pc = "idle"
  /\ Prop(exports, <<"N", "o", "t", "F", "o", "u", "n", "d">>).t = "function"
  /\ <<"N", "o", "t", "F", "o", "u", "n", "d", "E", "r", "r", "o", "r">>
       \notin DOMAIN exports

(***************************************************************************)
(* C9: when the arguments contain an error value, the value returned is    *)
(* the last error argument itself: no error is constructed, every other    *)
(* error is left as it was, and the normalization is applied to that       *)
(* object in place.  For a plain error e with neither status nor           *)
(* statusCode, createError(e) returns e with status 500, statusCode 500    *)
(* and expose false.                                                       *)
(***************************************************************************)
C9_AdoptsLastError ==
  (Returned /\ ErrorArgs # {})
    => /\ last.value = last.args[Last(ErrorArgs)]
       /\ Len(heap) = Len(last.pre)
       /\ \A j \in DOMAIN heap : j # last.value.v => heap[j] = last.pre[j]
       /\ Result.proto = last.pre[last.value.v].proto
       /\ \A k \in DOMAIN last.pre[last.value.v].own : k \in DOMAIN Result.own
       /\ (/\ Len(last.args) = 1
           /\ last.pre[last.value.v].proto = NativeError
           /\ DOMAIN last.pre[last.value.v].own \cap Protected = {})
            => /\ Result.own["status"] = Num(500)
               /\ Result.own["statusCode"] = Num(500)
               /\ Result.own["expose"] = Bool(FALSE)

\* createError(e1, e2) has returned e2 for two errors e1 and e2, and e2 has
\* gained its status in place
C9_Witness ==
  /\ Returned
  /\ Len(last.args) = 2
  /\ ErrorArgs = {1, 2}
  /\ last.args[1] # last.args[2]
  /\ last.value = last.args[2]
  /\ "status" \notin DOMAIN last.pre[last.value.v].own
  /\ "status" \in DOMAIN Result.own

====
